---- MODULE Spec2Model ----
(***************************************************************************)
(* Model of the native SPL-style token program                             *)
(* (src/spl_token_program/spl-token-program/src/lib.rs).                   *)
(*                                                                         *)
(* State: the account data buffers the runtime keeps for the program, the  *)
(* build profile of the deployed binary (integer overflow panics or        *)
(* wraps), and the transaction being processed (instruction, accounts,     *)
(* result, the buffers before the call and the buffers as the handler left *)
(* them when it returned).  One action per instruction variant; every      *)
(* action is the whole of process_instruction for that variant followed by *)
(* the runtime's rule that a failed invocation's writes are discarded.     *)
(*                                                                         *)
(* Buffers are byte sequences and records are read and written with the    *)
(* Borsh layout the derives produce, so that a record the program wrote    *)
(* and cannot read back is a behaviour of the model.                       *)
(***************************************************************************)
EXTENDS Integers, Sequences, FiniteSets, TLC

(***************************************************************************)
(* The fields of the model's records, in the order the record constructors *)
(* below list them.  TLC keeps a record's fields sorted by the order in    *)
(* which their names first occur in the module; with the names introduced  *)
(* here every record is built already sorted, and the model checker's      *)
(* workers never reorder a record another worker is reading.               *)
(***************************************************************************)
FieldOrder ==
    [instruction |-> 1, accounts |-> 2, res |-> 3, ok |-> 4, val |-> 5, off |-> 6,
     overflow |-> 7, panic |-> 8, data |-> 9, pre |-> 10, post |-> 11,
     tag |-> 12, is_initialized |-> 13, decimals |-> 14, mint_authority |-> 15,
     supply |-> 16, freeze_authority |-> 17, mint |-> 18, owner |-> 19, amount |-> 20,
     is_frozen |-> 21, new_authority |-> 22,
     key |-> 23, is_signer |-> 24, owner_is_program |-> 25, rent_exempt |-> 26]

(***************************************************************************)
(* Bounds and input sets of the model.                                     *)
(***************************************************************************)
\* Successful invocations explored from the initial state.
MaxOps == 4

\* Pubkeys are 32-byte arrays; the model's keys are the arrays of 32 equal
\* bytes, named by that byte.
Pubkey(b) == [i \in 1..32 |-> b]

\* Pubkey::new_from_array([1;32]), the freeze authority process_initialize_mint writes.
HardcodedFreezeByte == 1

\* accounts whose data the model follows: one mint, two token accounts
MintKeys == {2}
TokenKeys == {4, 5}
BufferKeys == MintKeys \cup TokenKeys
\* keys a token account may be given as its mint: the mint, and another mint
\* account of the program
MintRefs == {2, 3}
Principals == {6, 7}

\* size of the account buffers the client allocates: Mint::LEN, TokenAccount::LEN
Mint_LEN == 1 + 1 + 33 + 8 + 33
TokenAccount_LEN == 1 + 32 + 32 + 8 + 1

(***************************************************************************)
(* Bind(v, Op): Op applied to the value of v, with v evaluated once.  TLC   *)
(* may evaluate a LET definition at every use; the handlers bind each      *)
(* `let` of the source with Bind, in the order the source executes them.   *)
(***************************************************************************)
Bind(v, Op(_)) == CHOOSE y \in {Op(w) : w \in {v}} : TRUE

(***************************************************************************)
(* u64: four 16-bit limbs, least significant first (TLC's integers are     *)
(* 32 bits wide, so a 64-bit value is never held in one integer).          *)
(***************************************************************************)
LimbBase == 256 * 256

U64Zero == <<0, 0, 0, 0>>
U64One == <<1, 0, 0, 0>>
U64Max == <<65535, 65535, 65535, 65535>>

\* u64::from_le_bytes / to_le_bytes (Borsh writes integers little-endian)
U64FromLeBytes(b) == [j \in 1..4 |-> b[2 * j - 1] + 256 * b[2 * j]]

U64ToLeBytes(v) ==
    [i \in 1..8 |-> IF i % 2 = 1 THEN v[(i + 1) \div 2] % 256 ELSE v[i \div 2] \div 256]

\* a + b over 64 bits: the sum modulo 2^64 and the carry out
U64Add(a, b) ==
    LET t1 == a[1] + b[1]
        t2 == a[2] + b[2] + (t1 \div LimbBase)
        t3 == a[3] + b[3] + (t2 \div LimbBase)
        t4 == a[4] + b[4] + (t3 \div LimbBase)
    IN  [val |-> <<t1 % LimbBase, t2 % LimbBase, t3 % LimbBase, t4 % LimbBase>>,
         overflow |-> t4 \div LimbBase = 1]

\* a < b
U64Lt(a, b) ==
    \E i \in 1..4 : a[i] < b[i] /\ \A j \in (i + 1)..4 : a[j] = b[j]

\* a - b over 64 bits: the difference modulo 2^64 and the borrow out
U64Sub(a, b) ==
    LET t1 == a[1] - b[1]
        c1 == IF t1 < 0 THEN 1 ELSE 0
        t2 == a[2] - b[2] - c1
        c2 == IF t2 < 0 THEN 1 ELSE 0
        t3 == a[3] - b[3] - c2
        c3 == IF t3 < 0 THEN 1 ELSE 0
        t4 == a[4] - b[4] - c3
    IN  [val |-> <<t1 + c1 * LimbBase, t2 + c2 * LimbBase, t3 + c3 * LimbBase,
                   t4 + (IF t4 < 0 THEN LimbBase ELSE 0)>>,
         overflow |-> t4 < 0]

\* a `+=` that leaves x as it was
AddAssign_not_added(x, y, overflow_checks) ==
    [val |-> x, panic |-> FALSE]

\* `x += y` on u64: with overflow-checks the operation panics on overflow,
\* without it stores the wrapped sum.
AddAssign(x, y, overflow_checks) ==
    LET s == U64Add(x, y)
    IN  [val |-> s.val, panic |-> overflow_checks /\ s.overflow]

\* `x -= y` on u64
SubAssign(x, y, overflow_checks) ==
    LET s == U64Sub(x, y)
    IN  [val |-> s.val, panic |-> overflow_checks /\ s.overflow]

(***************************************************************************)
(* Borsh primitives.  A read returns [ok, val, off]: off is the offset     *)
(* after the value; a failed read leaves off past the end so that every    *)
(* later read fails too.                                                   *)
(***************************************************************************)
None == <<>>
Some(k) == <<k>>

ReadFail(b) == [ok |-> FALSE, val |-> 0, off |-> Len(b) + 1]

ReadU8(b, off) ==
    IF off + 1 > Len(b) THEN ReadFail(b)
    ELSE [ok |-> TRUE, val |-> b[off + 1], off |-> off + 1]

\* bool: one byte, 0 or 1; any other byte is an error
ReadBool(b, off) ==
    IF off + 1 > Len(b) THEN ReadFail(b)
    ELSE IF b[off + 1] \notin {0, 1} THEN ReadFail(b)
    ELSE [ok |-> TRUE, val |-> (b[off + 1] = 1), off |-> off + 1]

ReadU64(b, off) ==
    IF off + 8 > Len(b) THEN ReadFail(b)
    ELSE [ok |-> TRUE, val |-> U64FromLeBytes(SubSeq(b, off + 1, off + 8)), off |-> off + 8]

ReadPubkey(b, off) ==
    IF off + 32 > Len(b) THEN ReadFail(b)
    ELSE [ok |-> TRUE, val |-> SubSeq(b, off + 1, off + 32), off |-> off + 32]

\* Option<Pubkey>: tag 0 and nothing else, or tag 1 and the 32 key bytes
ReadOptionPubkey(b, off) ==
    IF off + 1 > Len(b) THEN ReadFail(b)
    ELSE IF b[off + 1] = 0 THEN [ok |-> TRUE, val |-> None, off |-> off + 1]
    ELSE IF b[off + 1] = 1
         THEN LET k == ReadPubkey(b, off + 1)
              IN  IF k.ok THEN [ok |-> TRUE, val |-> Some(k.val), off |-> k.off]
                  ELSE ReadFail(b)
    ELSE ReadFail(b)

BoolBytes(v) == <<IF v THEN 1 ELSE 0>>

OptionPubkeyBytes(o) == IF o = None THEN <<0>> ELSE <<1>> \o o[1]

(***************************************************************************)
(* Mint and TokenAccount: the derived Borsh codec of the two structs.      *)
(***************************************************************************)
\* Mint::new
Mint_new(decimals, mint_authority, freeze_authority) ==
    [is_initialized |-> TRUE,
     decimals |-> decimals,
     mint_authority |-> Some(mint_authority),
     supply |-> U64Zero,
     freeze_authority |-> freeze_authority]

\* TokenAccount::new
TokenAccount_new(mint, owner) ==
    [is_initialized |-> TRUE,
     mint |-> mint,
     owner |-> owner,
     amount |-> U64Zero,
     is_frozen |-> FALSE]

\* the record a failed decode carries (never read)
NoMint == Mint_new(0, Pubkey(0), None)
NoTokenAccount == TokenAccount_new(Pubkey(0), Pubkey(0))

\* #[derive(BorshSerialize)] for Mint: the fields in order
Mint_to_bytes(m) ==
    BoolBytes(m.is_initialized) \o <<m.decimals>> \o OptionPubkeyBytes(m.mint_authority)
        \o U64ToLeBytes(m.supply) \o OptionPubkeyBytes(m.freeze_authority)

\* #[derive(BorshSerialize)] for TokenAccount
TokenAccount_to_bytes(t) ==
    BoolBytes(t.is_initialized) \o t.mint \o t.owner \o U64ToLeBytes(t.amount)
        \o BoolBytes(t.is_frozen)

\* #[derive(BorshDeserialize)] for Mint: reads the fields in order from the
\* front of b and reports how many bytes it consumed
Mint_read(b) ==
    Bind(b, LAMBDA s :
    Bind(ReadBool(s, 0), LAMBDA r1 :
    Bind(ReadU8(s, r1.off), LAMBDA r2 :
    Bind(ReadOptionPubkey(s, r2.off), LAMBDA r3 :
    Bind(ReadU64(s, r3.off), LAMBDA r4 :
    Bind(ReadOptionPubkey(s, r4.off), LAMBDA r5 :
        IF r1.ok /\ r2.ok /\ r3.ok /\ r4.ok /\ r5.ok
        THEN [ok |-> TRUE,
              val |-> [is_initialized |-> r1.val, decimals |-> r2.val,
                       mint_authority |-> r3.val, supply |-> r4.val,
                       freeze_authority |-> r5.val],
              off |-> r5.off]
        ELSE [ok |-> FALSE, val |-> NoMint, off |-> 0]))))))

\* #[derive(BorshDeserialize)] for TokenAccount
TokenAccount_read(b) ==
    Bind(b, LAMBDA s :
    Bind(ReadBool(s, 0), LAMBDA r1 :
    Bind(ReadPubkey(s, r1.off), LAMBDA r2 :
    Bind(ReadPubkey(s, r2.off), LAMBDA r3 :
    Bind(ReadU64(s, r3.off), LAMBDA r4 :
    Bind(ReadBool(s, r4.off), LAMBDA r5 :
        IF r1.ok /\ r2.ok /\ r3.ok /\ r4.ok /\ r5.ok
        THEN [ok |-> TRUE,
              val |-> [is_initialized |-> r1.val, mint |-> r2.val, owner |-> r3.val,
                       amount |-> r4.val, is_frozen |-> r5.val],
              off |-> r5.off]
        ELSE [ok |-> FALSE, val |-> NoTokenAccount, off |-> 0]))))))

\* BorshDeserialize::try_from_slice: the derived read, and an error unless
\* the whole slice was consumed
Mint_try_from_slice(b) ==
    Bind(b, LAMBDA s :
    Bind(Mint_read(s), LAMBDA r :
        [ok |-> r.ok /\ r.off = Len(s), val |-> r.val]))

TokenAccount_try_from_slice(b) ==
    Bind(b, LAMBDA s :
    Bind(TokenAccount_read(s), LAMBDA r :
        [ok |-> r.ok /\ r.off = Len(s), val |-> r.val]))

\* Outcome of a decode: "Ok" with the record, "InvalidAccountData", or
\* "Panic" (a slice index out of range aborts the program).
\* Mint::deserialize: &data[..76], then try_from_slice
Mint_deserialize(data) ==
    IF Len(data) < 76 THEN [res |-> "Panic", val |-> NoMint]
    ELSE Bind(Mint_try_from_slice(SubSeq(data, 1, 76)), LAMBDA r :
             [res |-> IF r.ok THEN "Ok" ELSE "InvalidAccountData", val |-> r.val])

\* TokenAccount::deserialize: &data[..74], then try_from_slice
TokenAccount_deserialize(data) ==
    IF Len(data) < 74 THEN [res |-> "Panic", val |-> NoTokenAccount]
    ELSE Bind(TokenAccount_try_from_slice(SubSeq(data, 1, 74)), LAMBDA r :
             [res |-> IF r.ok THEN "Ok" ELSE "InvalidAccountData", val |-> r.val])

\* borsh::to_writer(&mut data[..], record): the encoding overwrites the
\* front of the buffer; a buffer too short is filled and the call fails
WriteTo(data, enc) ==
    Bind(data, LAMBDA buf :
    Bind(enc, LAMBDA e :
        [ok |-> Len(e) <= Len(buf),
         data |-> [i \in 1..Len(buf) |-> IF i <= Len(e) THEN e[i] ELSE buf[i]]]))

\* Mint::serialize
Mint_serialize(m, data) == WriteTo(data, Mint_to_bytes(m))

\* TokenAccount::serialize
TokenAccount_serialize(t, data) == WriteTo(data, TokenAccount_to_bytes(t))

(***************************************************************************)
(* Instructions and accounts.                                              *)
(*                                                                         *)
(* An AccountInfo carries the account's key, whether it signed, whether    *)
(* the account is owned by this program (owner == program_id) and whether  *)
(* Rent::is_exempt holds of its lamports and data length.  The data of the *)
(* account with key k is d[k].                                             *)
(***************************************************************************)
AccountInfo(key, is_signer, owner_is_program, rent_exempt) ==
    [key |-> key, is_signer |-> is_signer, owner_is_program |-> owner_is_program,
     rent_exempt |-> rent_exempt]

\* the rent sysvar account, and an account passed only for its key
RentSysvarKey == 8
RentSysvar == AccountInfo(RentSysvarKey, FALSE, FALSE, TRUE)
KeyOnly(key) == AccountInfo(key, FALSE, FALSE, TRUE)

\* TokenInstruction, one record shape for the six variants
Instruction(tag, decimals, mint_authority, freeze_authority, amount, new_authority) ==
    [tag |-> tag, decimals |-> decimals, mint_authority |-> mint_authority,
     freeze_authority |-> freeze_authority, amount |-> amount,
     new_authority |-> new_authority]

\* ProgramResult of a handler, with the buffers as the handler left them
Return(res, d) == [res |-> res, data |-> d]

process_initialize_mint(d, accounts, decimals, mint_authority, freeze_authority) ==
    IF Len(accounts) < 2 THEN Return("NotEnoughAccountKeys", d)
    ELSE
    Bind(accounts[1], LAMBDA mint_account :
    Bind(accounts[2], LAMBDA rent_sysvar_account :
    IF ~mint_account.owner_is_program THEN Return("IncorrectProgramId", d)
    ELSE IF rent_sysvar_account.key # RentSysvarKey THEN Return("InvalidArgument", d)
    ELSE IF ~mint_account.rent_exempt THEN Return("NotRentExempt", d)
    ELSE
    Bind(Mint_new(decimals, mint_authority, Some(Pubkey(HardcodedFreezeByte))), LAMBDA mint :
    Bind(Mint_serialize(mint, d[mint_account.key]), LAMBDA w :
        Return(IF w.ok THEN "Ok" ELSE "InvalidAccountData",
               [d EXCEPT ![mint_account.key] = w.data])))))

process_initialize_account(d, accounts) ==
    IF Len(accounts) < 4 THEN Return("NotEnoughAccountKeys", d)
    ELSE
    Bind(accounts[1], LAMBDA token_account :
    Bind(accounts[2], LAMBDA mint_account :
    Bind(accounts[3], LAMBDA owner_account :
    Bind(accounts[4], LAMBDA rent_sysvar_account :
    IF ~token_account.owner_is_program THEN Return("IncorrectProgramId", d)
    ELSE IF rent_sysvar_account.key # RentSysvarKey THEN Return("InvalidArgument", d)
    ELSE IF ~token_account.rent_exempt THEN Return("NotRentExempt", d)
    ELSE
    Bind(TokenAccount_new(Pubkey(mint_account.key), Pubkey(owner_account.key)),
         LAMBDA token_acc :
    Bind(TokenAccount_serialize(token_acc, d[token_account.key]), LAMBDA w :
        Return(IF w.ok THEN "Ok" ELSE "InvalidAccountData",
               [d EXCEPT ![token_account.key] = w.data])))))))

\* process_mint_to as it would be with a decode that accepts a record shorter
\* than the slice and without the `else` arm of the authority match: the
\* handler C6 would fail on.  Not part of the program.
process_mint_to_no_authority_arm(d, accounts, amount, overflow_checks) ==
    IF Len(accounts) < 3 THEN Return("NotEnoughAccountKeys", d)
    ELSE
    Bind(accounts[1], LAMBDA mint_account :
    Bind(accounts[2], LAMBDA token_account :
    Bind(accounts[3], LAMBDA mint_authority_account :
    Bind(d[mint_account.key], LAMBDA mint_data :
    IF Len(mint_data) < 76 THEN Return("Panic", d)
    ELSE
    Bind(Mint_read(SubSeq(mint_data, 1, 76)), LAMBDA m :
    IF ~m.ok THEN Return("InvalidAccountData", d)
    ELSE IF ~mint_authority_account.is_signer THEN Return("Unauthorized", d)
    ELSE IF /\ m.val.mint_authority # None
            /\ m.val.mint_authority[1] # Pubkey(mint_authority_account.key)
         THEN Return("Unauthorized", d)
    ELSE
    Bind(AddAssign(m.val.supply, amount, overflow_checks), LAMBDA supply :
    IF supply.panic THEN Return("Panic", d)
    ELSE
    Bind(Mint_serialize([m.val EXCEPT !.supply = supply.val], mint_data), LAMBDA w1 :
    Bind([d EXCEPT ![mint_account.key] = w1.data], LAMBDA d1 :
    IF ~w1.ok THEN Return("InvalidAccountData", d1)
    ELSE
    Bind(d1[token_account.key], LAMBDA token_data :
    IF Len(token_data) < 74 THEN Return("Panic", d1)
    ELSE
    Bind(TokenAccount_deserialize(SubSeq(token_data, 1, 74)), LAMBDA t :
    IF t.res # "Ok" THEN Return(t.res, d1)
    ELSE
    Bind(AddAssign(t.val.amount, amount, overflow_checks), LAMBDA new_amount :
    IF new_amount.panic THEN Return("Panic", d1)
    ELSE
    Bind(TokenAccount_serialize([t.val EXCEPT !.amount = new_amount.val], token_data),
         LAMBDA w2 :
        Return(IF w2.ok THEN "Ok" ELSE "InvalidAccountData",
               [d1 EXCEPT ![token_account.key] = w2.data])))))))))))))

process_mint_to(d, accounts, amount, overflow_checks) ==
    IF Len(accounts) < 3 THEN Return("NotEnoughAccountKeys", d)
    ELSE
    Bind(accounts[1], LAMBDA mint_account :
    Bind(accounts[2], LAMBDA token_account :
    Bind(accounts[3], LAMBDA mint_authority_account :
    Bind(d[mint_account.key], LAMBDA mint_data :
    \* mint_data[43], &mint_data[..76]
    IF Len(mint_data) < 76 THEN Return("Panic", d)
    ELSE
    Bind(Mint_deserialize(SubSeq(mint_data, 1, 76)), LAMBDA m :
    IF m.res # "Ok" THEN Return(m.res, d)
    ELSE IF ~mint_authority_account.is_signer THEN Return("Unauthorized", d)
    ELSE IF m.val.mint_authority = None THEN Return("Unauthorized", d)
    ELSE IF m.val.mint_authority[1] # Pubkey(mint_authority_account.key)
         THEN Return("Unauthorized", d)
    ELSE
    \* mint.supply += amount
    Bind(AddAssign(m.val.supply, amount, overflow_checks), LAMBDA supply :
    IF supply.panic THEN Return("Panic", d)
    ELSE
    Bind(Mint_serialize([m.val EXCEPT !.supply = supply.val], mint_data), LAMBDA w1 :
    Bind([d EXCEPT ![mint_account.key] = w1.data], LAMBDA d1 :
    IF ~w1.ok THEN Return("InvalidAccountData", d1)
    ELSE
    Bind(d1[token_account.key], LAMBDA token_data :
    IF Len(token_data) < 74 THEN Return("Panic", d1)
    ELSE
    Bind(TokenAccount_deserialize(SubSeq(token_data, 1, 74)), LAMBDA t :
    IF t.res # "Ok" THEN Return(t.res, d1)
    ELSE
    \* token_acc.amount += amount
    Bind(AddAssign(t.val.amount, amount, overflow_checks), LAMBDA new_amount :
    IF new_amount.panic THEN Return("Panic", d1)
    ELSE
    Bind(TokenAccount_serialize([t.val EXCEPT !.amount = new_amount.val], token_data),
         LAMBDA w2 :
        Return(IF w2.ok THEN "Ok" ELSE "InvalidAccountData",
               [d1 EXCEPT ![token_account.key] = w2.data])))))))))))))

\* the comparison of the funds check turned round (`amount < balance`): the
\* check C8 would fail on.  Not part of the program.
amount_exceeds_reversed(balance, amount) == U64Lt(amount, balance)

\* `source_acc.amount < amount` / `token_acc.amount < amount`: the debit is
\* more than the balance
amount_exceeds(balance, amount) == U64Lt(balance, amount)

\* process_transfer with the balance compared before the owner
process_transfer_balance_first(d, accounts, amount, overflow_checks) ==
    IF Len(accounts) < 3 THEN Return("NotEnoughAccountKeys", d)
    ELSE
    Bind(accounts[1], LAMBDA source_account :
    Bind(accounts[2], LAMBDA dest_account :
    Bind(accounts[3], LAMBDA owner_account :
    IF ~owner_account.is_signer THEN Return("Unauthorized", d)
    ELSE
    Bind(d[source_account.key], LAMBDA source_data :
    Bind(TokenAccount_deserialize(source_data), LAMBDA s :
    IF s.res # "Ok" THEN Return(s.res, d)
    ELSE IF amount_exceeds(s.val.amount, amount) THEN Return("InsufficientFunds", d)
    ELSE IF s.val.owner # Pubkey(owner_account.key) THEN Return("Unauthorized", d)
    ELSE
    \* source_acc.amount -= amount
    Bind(SubAssign(s.val.amount, amount, overflow_checks), LAMBDA new_source :
    Bind(TokenAccount_serialize([s.val EXCEPT !.amount = new_source.val], source_data),
         LAMBDA w1 :
    Bind([d EXCEPT ![source_account.key] = w1.data], LAMBDA d1 :
    IF ~w1.ok THEN Return("InvalidAccountData", d1)
    \* source_data is still borrowed mutably: borrowing the same account's
    \* data again panics (BorrowMutError)
    ELSE IF dest_account.key = source_account.key THEN Return("Panic", d1)
    ELSE
    Bind(d1[dest_account.key], LAMBDA dest_data :
    Bind(TokenAccount_deserialize(dest_data), LAMBDA t :
    IF t.res # "Ok" THEN Return(t.res, d1)
    ELSE
    \* dest_acc.amount += amount
    Bind(AddAssign(t.val.amount, amount, overflow_checks), LAMBDA new_dest :
    IF new_dest.panic THEN Return("Panic", d1)
    ELSE
    Bind(TokenAccount_serialize([t.val EXCEPT !.amount = new_dest.val], dest_data),
         LAMBDA w2 :
        Return(IF w2.ok THEN "Ok" ELSE "InvalidAccountData",
               [d1 EXCEPT ![dest_account.key] = w2.data])))))))))))))

\* process_transfer with no borrow conflict and the destination read as it
\* was before the source was written
process_transfer_stale_dest(d, accounts, amount, overflow_checks) ==
    IF Len(accounts) < 3 THEN Return("NotEnoughAccountKeys", d)
    ELSE
    Bind(accounts[1], LAMBDA source_account :
    Bind(accounts[2], LAMBDA dest_account :
    Bind(accounts[3], LAMBDA owner_account :
    IF ~owner_account.is_signer THEN Return("Unauthorized", d)
    ELSE
    Bind(d[source_account.key], LAMBDA source_data :
    Bind(TokenAccount_deserialize(source_data), LAMBDA s :
    IF s.res # "Ok" THEN Return(s.res, d)
    ELSE IF s.val.owner # Pubkey(owner_account.key) THEN Return("Unauthorized", d)
    ELSE IF amount_exceeds(s.val.amount, amount) THEN Return("InsufficientFunds", d)
    ELSE
    \* source_acc.amount -= amount
    Bind(SubAssign(s.val.amount, amount, overflow_checks), LAMBDA new_source :
    Bind(TokenAccount_serialize([s.val EXCEPT !.amount = new_source.val], source_data),
         LAMBDA w1 :
    Bind([d EXCEPT ![source_account.key] = w1.data], LAMBDA d1 :
    IF ~w1.ok THEN Return("InvalidAccountData", d1)
    ELSE
    Bind(d[dest_account.key], LAMBDA dest_data :
    Bind(TokenAccount_deserialize(dest_data), LAMBDA t :
    IF t.res # "Ok" THEN Return(t.res, d1)
    ELSE
    \* dest_acc.amount += amount
    Bind(AddAssign(t.val.amount, amount, overflow_checks), LAMBDA new_dest :
    IF new_dest.panic THEN Return("Panic", d1)
    ELSE
    Bind(TokenAccount_serialize([t.val EXCEPT !.amount = new_dest.val], dest_data),
         LAMBDA w2 :
        Return(IF w2.ok THEN "Ok" ELSE "InvalidAccountData",
               [d1 EXCEPT ![dest_account.key] = w2.data])))))))))))))

process_transfer(d, accounts, amount, overflow_checks) ==
    IF Len(accounts) < 3 THEN Return("NotEnoughAccountKeys", d)
    ELSE
    Bind(accounts[1], LAMBDA source_account :
    Bind(accounts[2], LAMBDA dest_account :
    Bind(accounts[3], LAMBDA owner_account :
    IF ~owner_account.is_signer THEN Return("Unauthorized", d)
    ELSE
    Bind(d[source_account.key], LAMBDA source_data :
    Bind(TokenAccount_deserialize(source_data), LAMBDA s :
    IF s.res # "Ok" THEN Return(s.res, d)
    ELSE IF s.val.owner # Pubkey(owner_account.key) THEN Return("Unauthorized", d)
    ELSE IF amount_exceeds(s.val.amount, amount) THEN Return("InsufficientFunds", d)
    ELSE
    \* source_acc.amount -= amount
    Bind(SubAssign(s.val.amount, amount, overflow_checks), LAMBDA new_source :
    Bind(TokenAccount_serialize([s.val EXCEPT !.amount = new_source.val], source_data),
         LAMBDA w1 :
    Bind([d EXCEPT ![source_account.key] = w1.data], LAMBDA d1 :
    IF ~w1.ok THEN Return("InvalidAccountData", d1)
    \* source_data is still borrowed mutably: borrowing the same account's
    \* data again panics (BorrowMutError)
    ELSE IF dest_account.key = source_account.key THEN Return("Panic", d1)
    ELSE
    Bind(d1[dest_account.key], LAMBDA dest_data :
    Bind(TokenAccount_deserialize(dest_data), LAMBDA t :
    IF t.res # "Ok" THEN Return(t.res, d1)
    ELSE
    \* dest_acc.amount += amount
    Bind(AddAssign(t.val.amount, amount, overflow_checks), LAMBDA new_dest :
    IF new_dest.panic THEN Return("Panic", d1)
    ELSE
    Bind(TokenAccount_serialize([t.val EXCEPT !.amount = new_dest.val], dest_data),
         LAMBDA w2 :
        Return(IF w2.ok THEN "Ok" ELSE "InvalidAccountData",
               [d1 EXCEPT ![dest_account.key] = w2.data])))))))))))))

process_burn(d, accounts, amount, overflow_checks) ==
    IF Len(accounts) < 3 THEN Return("NotEnoughAccountKeys", d)
    ELSE
    Bind(accounts[1], LAMBDA token_account :
    Bind(accounts[2], LAMBDA mint_account :
    Bind(accounts[3], LAMBDA owner_account :
    IF ~owner_account.is_signer THEN Return("Unauthorized", d)
    ELSE
    Bind(d[token_account.key], LAMBDA token_data :
    Bind(TokenAccount_deserialize(token_data), LAMBDA t :
    IF t.res # "Ok" THEN Return(t.res, d)
    ELSE IF t.val.owner # Pubkey(owner_account.key) THEN Return("Unauthorized", d)
    ELSE IF amount_exceeds(t.val.amount, amount) THEN Return("InsufficientFunds", d)
    ELSE
    \* token_acc.amount -= amount
    Bind(SubAssign(t.val.amount, amount, overflow_checks), LAMBDA new_amount :
    Bind(TokenAccount_serialize([t.val EXCEPT !.amount = new_amount.val], token_data),
         LAMBDA w1 :
    Bind([d EXCEPT ![token_account.key] = w1.data], LAMBDA d1 :
    IF ~w1.ok THEN Return("InvalidAccountData", d1)
    \* token_data is still borrowed mutably
    ELSE IF mint_account.key = token_account.key THEN Return("Panic", d1)
    ELSE
    Bind(d1[mint_account.key], LAMBDA mint_data :
    Bind(Mint_deserialize(mint_data), LAMBDA m :
    IF m.res # "Ok" THEN Return(m.res, d1)
    ELSE
    \* mint.supply -= amount
    Bind(SubAssign(m.val.supply, amount, overflow_checks), LAMBDA supply :
    IF supply.panic THEN Return("Panic", d1)
    ELSE
    Bind(Mint_serialize([m.val EXCEPT !.supply = supply.val], mint_data), LAMBDA w2 :
        Return(IF w2.ok THEN "Ok" ELSE "InvalidAccountData",
               [d1 EXCEPT ![mint_account.key] = w2.data])))))))))))))

process_set_mint_authority(d, accounts, new_authority) ==
    IF Len(accounts) < 2 THEN Return("NotEnoughAccountKeys", d)
    ELSE
    Bind(accounts[1], LAMBDA mint_account :
    Bind(accounts[2], LAMBDA current_authority_account :
    Bind(d[mint_account.key], LAMBDA mint_data :
    Bind(Mint_deserialize(mint_data), LAMBDA m :
    IF m.res # "Ok" THEN Return(m.res, d)
    ELSE IF ~current_authority_account.is_signer THEN Return("Unauthorized", d)
    ELSE IF m.val.mint_authority = None THEN Return("Unauthorized", d)
    ELSE IF m.val.mint_authority[1] # Pubkey(current_authority_account.key)
         THEN Return("Unauthorized", d)
    ELSE
    \* mint.mint_authority = new_authority
    Bind(Mint_serialize([m.val EXCEPT !.mint_authority = new_authority], mint_data),
         LAMBDA w :
        Return(IF w.ok THEN "Ok" ELSE "InvalidAccountData",
               [d EXCEPT ![mint_account.key] = w.data]))))))

\* process_instruction: the match on the decoded instruction
process_instruction(d, instruction, accounts, overflow_checks) ==
    CASE instruction.tag = "InitializeMint" ->
            process_initialize_mint(d, accounts, instruction.decimals,
                                    instruction.mint_authority, instruction.freeze_authority)
      [] instruction.tag = "InitializeAccount" ->
            process_initialize_account(d, accounts)
      [] instruction.tag = "MintTo" ->
            process_mint_to(d, accounts, instruction.amount, overflow_checks)
      [] instruction.tag = "Transfer" ->
            process_transfer(d, accounts, instruction.amount, overflow_checks)
      [] instruction.tag = "Burn" ->
            process_burn(d, accounts, instruction.amount, overflow_checks)
      [] instruction.tag = "SetMintAuthority" ->
            process_set_mint_authority(d, accounts, instruction.new_authority)

(***************************************************************************)
(* The state machine.                                                      *)
(***************************************************************************)
VARIABLES
    data,             \* account key -> the account's data buffer, as committed
    overflow_checks,  \* build profile: TRUE when integer overflow panics
    nops,             \* successful invocations so far
    tx                \* the transaction just processed: instruction, accounts,
                      \* result, the buffers before it and the buffers as the
                      \* handler left them; NoTransaction between transactions

vars == <<data, overflow_checks, nops, tx>>

\* inputs of the invocations
DecimalsIn == {9}
FreezeIn == {None, Some(Pubkey(7))}
AmountsIn == {U64One, U64Max}
NewAuthorityIn == {None} \cup {Some(Pubkey(p)) : p \in Principals}
\* (key, is_signer) of the authority or owner account passed
SignersIn == {<<6, TRUE>>, <<7, TRUE>>, <<6, FALSE>>}
\* (owner == program_id, rent exempt) of the account an initializer targets
HostFactsIn == {<<FALSE, TRUE>>, <<TRUE, FALSE>>, <<TRUE, TRUE>>}

NoInstruction == Instruction("None", 0, Pubkey(0), None, U64Zero, None)
InitializeAccountInstruction ==
    Instruction("InitializeAccount", 0, Pubkey(0), None, U64Zero, None)

Transaction(instruction, accounts, res, pre, post) ==
    [instruction |-> instruction, accounts |-> accounts, res |-> res,
     pre |-> pre, post |-> post]

NoTransaction(d) == Transaction(NoInstruction, <<>>, "Ok", d, d)

\* a freshly allocated account: zeroed data of the length the client asked for
ZeroData(n) == [i \in 1..n |-> 0]

Init ==
    /\ data = [k \in BufferKeys |->
                 IF k \in MintKeys THEN ZeroData(Mint_LEN) ELSE ZeroData(TokenAccount_LEN)]
    /\ overflow_checks \in BOOLEAN
    /\ nops = 0
    /\ tx = NoTransaction(data)

\* entrypoint!(process_instruction): the runtime runs the handler on the
\* accounts' buffers and keeps its writes only when it returns Ok; an error
\* or a panic fails the transaction and the buffers stay as they were.
Invoke(instruction, accounts) ==
    \E r \in {process_instruction(data, instruction, accounts, overflow_checks)} :
        /\ r.res = "Ok" => nops < MaxOps
        /\ data' = IF r.res = "Ok" THEN r.data ELSE data
        /\ nops' = IF r.res = "Ok" THEN nops + 1 ELSE nops
        /\ tx' = Transaction(instruction, accounts, r.res, data, r.data)
        /\ UNCHANGED overflow_checks

\* no transaction is being processed: the runtime runs one at a time
Idle == tx.instruction.tag = "None"

InitializeMint ==
    \E k \in MintKeys, decimals \in DecimalsIn, a \in Principals, f \in FreezeIn,
       h \in HostFactsIn :
        /\ Idle
        /\ Invoke(Instruction("InitializeMint", decimals, Pubkey(a), f, U64Zero, None),
                  <<AccountInfo(k, FALSE, h[1], h[2]), RentSysvar>>)

InitializeAccount ==
    \E k \in TokenKeys, m \in MintRefs, o \in Principals, h \in HostFactsIn :
        /\ Idle
        /\ Invoke(InitializeAccountInstruction,
                  <<AccountInfo(k, FALSE, h[1], h[2]), KeyOnly(m), KeyOnly(o), RentSysvar>>)

MintTo ==
    \E m \in MintKeys, t \in TokenKeys, a \in SignersIn, amount \in AmountsIn :
        /\ Idle
        /\ Invoke(Instruction("MintTo", 0, Pubkey(0), None, amount, None),
                  <<AccountInfo(m, FALSE, TRUE, TRUE), AccountInfo(t, FALSE, TRUE, TRUE),
                    AccountInfo(a[1], a[2], FALSE, TRUE)>>)

Transfer ==
    \E s \in TokenKeys, t \in TokenKeys, o \in SignersIn, amount \in AmountsIn :
        /\ Idle
        /\ Invoke(Instruction("Transfer", 0, Pubkey(0), None, amount, None),
                  <<AccountInfo(s, FALSE, TRUE, TRUE), AccountInfo(t, FALSE, TRUE, TRUE),
                    AccountInfo(o[1], o[2], FALSE, TRUE)>>)

Burn ==
    \E t \in TokenKeys, m \in MintKeys, o \in SignersIn, amount \in AmountsIn :
        /\ Idle
        /\ Invoke(Instruction("Burn", 0, Pubkey(0), None, amount, None),
                  <<AccountInfo(t, FALSE, TRUE, TRUE), AccountInfo(m, FALSE, TRUE, TRUE),
                    AccountInfo(o[1], o[2], FALSE, TRUE)>>)

SetMintAuthority ==
    \E m \in MintKeys, a \in SignersIn, n \in NewAuthorityIn :
        /\ Idle
        /\ Invoke(Instruction("SetMintAuthority", 0, Pubkey(0), None, U64Zero, n),
                  <<AccountInfo(m, FALSE, TRUE, TRUE), AccountInfo(a[1], a[2], FALSE, TRUE)>>)

\* the transaction is over: its instruction, account infos and result are gone,
\* the committed buffers stay
EndTransaction ==
    /\ ~Idle
    /\ tx' = NoTransaction(data)
    /\ UNCHANGED <<data, overflow_checks, nops>>

Next ==
    \/ InitializeMint
    \/ InitializeAccount
    \/ MintTo
    \/ Transfer
    \/ Burn
    \/ SetMintAuthority
    \/ EndTransaction

Spec == Init /\ [][Next]_vars

(***************************************************************************)
(* The records the buffers hold, read with the derived layout (the reads   *)
(* of the program's own writes never fail), and the roles of a             *)
(* transaction's accounts.                                                 *)
(***************************************************************************)
MintOf(d, k) == Mint_read(d[k]).val
TokenAccountOf(d, k) == TokenAccount_read(d[k]).val

Tag == tx.instruction.tag
Failed == tx.res # "Ok"
\* the handler returned Err(_) (it did not panic)
ReturnedError == tx.res \notin {"Ok", "Panic"}
\* the handler wrote nothing / nothing was committed
NothingWritten == tx.post = tx.pre
NothingCommitted == data = tx.pre

\* the mint buffer, the token account buffers and the authority or owner
\* account of the transaction
TxMintKey ==
    IF Tag = "Burn" THEN tx.accounts[2].key ELSE tx.accounts[1].key
TxTokenKeys ==
    CASE Tag = "MintTo" -> {tx.accounts[2].key}
      [] Tag = "Transfer" -> {tx.accounts[1].key, tx.accounts[2].key}
      [] Tag = "Burn" -> {tx.accounts[1].key}
      [] OTHER -> {}
TxPrincipal ==
    IF Tag = "SetMintAuthority" THEN tx.accounts[2] ELSE tx.accounts[3]
\* the account Transfer and Burn debit
TxSourceKey == tx.accounts[1].key

\* the sum of the balances of the token accounts in keys that name mint m,
\* with the carry out of 64 bits
RECURSIVE HeldBy(_, _, _)
HeldBy(d, m, keys) ==
    IF keys = {} THEN [val |-> U64Zero, overflow |-> FALSE]
    ELSE LET k == CHOOSE x \in keys : TRUE
             rest == HeldBy(d, m, keys \ {k})
             t == TokenAccountOf(d, k)
             sum == U64Add(rest.val, t.amount)
         IN  IF t.mint = Pubkey(m)
             THEN [val |-> sum.val, overflow |-> rest.overflow \/ sum.overflow]
             ELSE rest

(***************************************************************************)
(* C1  Conservation: in every reachable state each mint's supply equals    *)
(* the sum of the amounts of the token accounts whose mint field names     *)
(* that mint.                                                              *)
(* Fails on the code: MintTo credits an account whatever its mint field    *)
(* holds, and the initializers reset records that are in use.              *)
(***************************************************************************)
C1_Conservation ==
    \A m \in MintKeys :
        LET held == HeldBy(data, m, TokenKeys)
        IN  ~held.overflow /\ MintOf(data, m).supply = held.val

(***************************************************************************)
(* C2  All-or-nothing: when MintTo, Transfer or Burn returns an error,     *)
(* both record buffers hold their bytes of before the call: the handler    *)
(* has written no record before every check on both records passed.        *)
(* Fails on the code: each handler writes its first record and then        *)
(* decodes and updates the second.                                         *)
(***************************************************************************)
C2_AllOrNothing ==
    (Tag \in {"MintTo", "Transfer", "Burn"} /\ ReturnedError) => NothingWritten

\* the records a transaction is given are initialized; its principal did not
\* sign, or its key is not the authority or owner the record names
C3_RecordsInitialized ==
    /\ Tag \in {"MintTo", "Burn", "SetMintAuthority"}
          => MintOf(tx.pre, TxMintKey).is_initialized
    /\ \A k \in TxTokenKeys : TokenAccountOf(tx.pre, k).is_initialized

C3_NotAuthorized ==
    \/ ~TxPrincipal.is_signer
    \/ /\ Tag \in {"MintTo", "SetMintAuthority"}
       /\ MintOf(tx.pre, TxMintKey).mint_authority # Some(Pubkey(TxPrincipal.key))
    \/ /\ Tag \in {"Transfer", "Burn"}
       /\ TokenAccountOf(tx.pre, TxSourceKey).owner # Pubkey(TxPrincipal.key)

(***************************************************************************)
(* C3  Authorization: MintTo, Transfer, Burn and SetMintAuthority on       *)
(* initialized records fail with Unauthorized, and write no buffer, when   *)
(* the designated principal did not sign or its key is not the mint's      *)
(* mint_authority (MintTo, SetMintAuthority) or the account's owner        *)
(* (Transfer, Burn).                                                       *)
(* Fails on the code for a mint whose authority is None: the mint cannot   *)
(* be decoded and the call ends InvalidAccountData.                        *)
(***************************************************************************)
C3_Authorization ==
    (/\ Tag \in {"MintTo", "Transfer", "Burn", "SetMintAuthority"}
     /\ C3_RecordsInitialized
     /\ C3_NotAuthorized)
        => (tx.res = "Unauthorized" /\ NothingWritten /\ NothingCommitted)

(***************************************************************************)
(* C4  Create-once: InitializeMint and InitializeAccount fail and leave    *)
(* the target buffer unchanged when it already holds an initialized        *)
(* record.                                                                 *)
(* Fails on the code: neither initializer reads is_initialized.            *)
(***************************************************************************)
C4_CreateOnce ==
    /\ (Tag = "InitializeMint" /\ MintOf(tx.pre, tx.accounts[1].key).is_initialized)
          => (Failed /\ NothingWritten /\ NothingCommitted)
    /\ (Tag = "InitializeAccount"
          /\ TokenAccountOf(tx.pre, tx.accounts[1].key).is_initialized)
          => (Failed /\ NothingWritten /\ NothingCommitted)

\* the mint in buffer m is initialized and has no mint authority
Revoked(d, m) == MintOf(d, m).is_initialized /\ MintOf(d, m).mint_authority = None

(***************************************************************************)
(* C5  Terminal authority: a mint whose mint_authority is None before a    *)
(* transaction, whatever the instruction, has mint_authority None after    *)
(* it.                                                                     *)
(* Fails on the code: InitializeMint on the revoked mint writes a new      *)
(* authority (the missing check of C4).                                    *)
(***************************************************************************)
C5_TerminalAuthority ==
    \A m \in MintKeys : Revoked(tx.pre, m) => Revoked(data, m)

(***************************************************************************)
(* C6  MintTo on a mint whose mint_authority is None fails, for every      *)
(* signer, amount and destination, and changes neither the mint's supply   *)
(* nor any account's amount (the handler writes nothing).                  *)
(***************************************************************************)
C6_NoMintWithoutAuthority ==
    (Tag = "MintTo" /\ MintOf(tx.pre, TxMintKey).mint_authority = None)
        => (Failed /\ NothingWritten /\ NothingCommitted)

\* a signed MintTo reached a mint whose authority SetMintAuthority revoked
C6_Witness ==
    /\ Tag = "MintTo"
    /\ Revoked(tx.pre, TxMintKey)
    /\ TxPrincipal.is_signer
    /\ Failed

\* a sum the transaction asks for is above 2^64-1
C7_SumOverflows ==
    \/ /\ Tag = "MintTo"
       /\ \/ U64Add(MintOf(tx.pre, TxMintKey).supply, tx.instruction.amount).overflow
          \/ U64Add(TokenAccountOf(tx.pre, tx.accounts[2].key).amount,
                    tx.instruction.amount).overflow
    \/ /\ Tag = "Transfer"
       /\ tx.accounts[1].key # tx.accounts[2].key
       /\ U64Add(TokenAccountOf(tx.pre, tx.accounts[2].key).amount,
                 tx.instruction.amount).overflow

(***************************************************************************)
(* C7  Addition never wraps: MintTo whose amount takes the mint's supply   *)
(* or the account's amount past 2^64-1, and Transfer whose amount takes    *)
(* the destination's amount past 2^64-1, fail and leave every buffer       *)
(* unchanged.                                                              *)
(* Fails on the code: the sums are plain `+=`, which wrap in a build       *)
(* without overflow checks.                                                *)
(***************************************************************************)
C7_AdditionNeverWraps ==
    C7_SumOverflows => (Failed /\ NothingWritten /\ NothingCommitted)

\* the amount is above the balance: balance - amount borrows
C8_Overdraw ==
    /\ Tag \in {"Transfer", "Burn"}
    /\ TxPrincipal.is_signer
    /\ TokenAccountOf(tx.pre, TxSourceKey).owner = Pubkey(TxPrincipal.key)
    /\ U64Sub(TokenAccountOf(tx.pre, TxSourceKey).amount, tx.instruction.amount).overflow

(***************************************************************************)
(* C8  Insufficient funds: Transfer or Burn signed by the account's owner  *)
(* with an amount above the account's amount fails with InsufficientFunds  *)
(* and leaves the source and the destination or mint buffer unchanged.     *)
(***************************************************************************)
C8_InsufficientFunds ==
    C8_Overdraw => (tx.res = "InsufficientFunds" /\ NothingWritten /\ NothingCommitted)

\* the owner asked for more than a balance that is not zero
C8_Witness ==
    /\ C8_Overdraw
    /\ Tag = "Transfer"
    /\ TokenAccountOf(tx.pre, TxSourceKey).amount # U64Zero
    /\ tx.res = "InsufficientFunds"

\* the transaction's token accounts are initialized and name a mint other than
\* the mint supplied (MintTo, Burn) or two different mints (Transfer)
C9_CrossMint ==
    /\ \A k \in TxTokenKeys : TokenAccountOf(tx.pre, k).is_initialized
    /\ \/ /\ Tag \in {"MintTo", "Burn"}
          /\ MintOf(tx.pre, TxMintKey).is_initialized
          /\ \E k \in TxTokenKeys : TokenAccountOf(tx.pre, k).mint # Pubkey(TxMintKey)
       \/ /\ Tag = "Transfer"
          /\ TokenAccountOf(tx.pre, tx.accounts[1].key).mint
                # TokenAccountOf(tx.pre, tx.accounts[2].key).mint

(***************************************************************************)
(* C9  Mint matching: MintTo and Burn on a token account whose mint field  *)
(* is not the key of the mint buffer supplied, and Transfer between        *)
(* accounts of different mints, change no balance and no supply, and end   *)
(* MintMismatch when the call is otherwise authorized.                     *)
(* Fails on the code: no handler compares the mint fields.                 *)
(***************************************************************************)
C9_MintMatching ==
    C9_CrossMint =>
        /\ Failed /\ NothingCommitted
        /\ ~C3_NotAuthorized => tx.res = "MintMismatch"

(***************************************************************************)
(* C10  Uninitialized records reject operations: MintTo, Transfer, Burn    *)
(* and SetMintAuthority fail, with no buffer modified, when a record       *)
(* buffer they are given is uninitialized.                                 *)
(* Fails on the code: a zeroed token account buffer decodes, and MintTo    *)
(* and Transfer credit it.                                                 *)
(***************************************************************************)
C10_UninitializedRejected ==
    (/\ Tag \in {"MintTo", "Transfer", "Burn", "SetMintAuthority"}
     /\ ~C3_RecordsInitialized)
        => (Failed /\ NothingWritten /\ NothingCommitted)

(***************************************************************************)
(* A second specification for the is_frozen field.  No instruction of the  *)
(* program sets is_frozen (TokenAccount::new writes false and the handlers *)
(* copy the field), so from zeroed buffers no record is ever frozen.  The  *)
(* handlers read whatever record the buffer they are given holds:          *)
(* SpecFrozen starts from buffers that hold a mint of supply 1 and, in     *)
(* account 4, the frozen TokenAccount that holds that token.               *)
(***************************************************************************)
FrozenTokenAccount ==
    [is_initialized |-> TRUE, mint |-> Pubkey(2), owner |-> Pubkey(6),
     amount |-> U64One, is_frozen |-> TRUE]

MintOfSupplyOne ==
    [is_initialized |-> TRUE, decimals |-> 9, mint_authority |-> Some(Pubkey(6)),
     supply |-> U64One, freeze_authority |-> Some(Pubkey(HardcodedFreezeByte))]

InitFrozen ==
    /\ data = [k \in BufferKeys |->
                 IF k \in MintKeys THEN Mint_to_bytes(MintOfSupplyOne)
                 ELSE IF k = 4 THEN TokenAccount_to_bytes(FrozenTokenAccount)
                 ELSE ZeroData(TokenAccount_LEN)]
    /\ overflow_checks \in BOOLEAN
    /\ nops = 0
    /\ tx = NoTransaction(data)

SpecFrozen == InitFrozen /\ [][Next]_vars

\* Transfer (to another account) or Burn debits an initialized account whose
\* record is frozen
C11_FrozenSource ==
    /\ Tag \in {"Transfer", "Burn"}
    /\ Tag = "Transfer" => tx.accounts[1].key # tx.accounts[2].key
    /\ TokenAccountOf(tx.pre, TxSourceKey).is_initialized
    /\ TokenAccountOf(tx.pre, TxSourceKey).is_frozen

\* the account's owner signed, for an amount the account holds
C11_OwnerSignedAndFunded ==
    /\ TxPrincipal.is_signer
    /\ TokenAccountOf(tx.pre, TxSourceKey).owner = Pubkey(TxPrincipal.key)
    /\ ~U64Sub(TokenAccountOf(tx.pre, TxSourceKey).amount, tx.instruction.amount).overflow

C12_EligibleInitializeMint ==
    /\ Tag = "InitializeMint"
    /\ ~MintOf(tx.pre, tx.accounts[1].key).is_initialized
    /\ tx.accounts[1].owner_is_program
    /\ tx.accounts[1].rent_exempt

(***************************************************************************)
(* C12  InitializeMint(decimals, mint_authority, freeze_authority) on an   *)
(* eligible uninitialized buffer succeeds and leaves in it the Mint with   *)
(* is_initialized true, supply 0, the decimals given, mint_authority       *)
(* Some(the key given) and the freeze_authority the caller supplied        *)
(* (None stays None).                                                      *)
(* Fails on the code: the Mint is built with Some([1;32]) as its           *)
(* freeze_authority, whatever the instruction carries.                     *)
(***************************************************************************)
C12_InitializeMintEffect ==
    C12_EligibleInitializeMint =>
        /\ tx.res = "Ok"
        /\ MintOf(data, tx.accounts[1].key) =
              [is_initialized |-> TRUE,
               decimals |-> tx.instruction.decimals,
               mint_authority |-> Some(tx.instruction.mint_authority),
               supply |-> U64Zero,
               freeze_authority |-> tx.instruction.freeze_authority]

(***************************************************************************)
(* A specification for the Mint codec alone: Mint::serialize writes a Mint *)
(* value into the mint account's buffer, over whatever an earlier write    *)
(* left there, and Mint::deserialize reads the buffer back.  The           *)
(* transaction record holds the value written (as its only account) and    *)
(* the outcome of the read.                                                *)
(***************************************************************************)
\* writes explored from the zeroed buffer
MaxWrites == 2

\* the valid Mint values written
MintDecimalsIn == {0, 9}
MintAuthorityIn == {None} \cup {Some(Pubkey(p)) : p \in Principals}
MintSupplyIn == {U64Zero, U64One, U64Max}
MintFreezeIn == {None, Some(Pubkey(HardcodedFreezeByte)), Some(Pubkey(7))}

MintRoundTripInstruction == Instruction("MintRoundTrip", 0, Pubkey(0), None, U64Zero, None)

InitCodec ==
    /\ data = [k \in BufferKeys |->
                 IF k \in MintKeys THEN ZeroData(Mint_LEN) ELSE ZeroData(TokenAccount_LEN)]
    /\ overflow_checks = FALSE
    /\ nops = 0
    /\ tx = NoTransaction(data)

\* mint.serialize(&mut &mut mint_data[..]) and, later, Mint::deserialize(&mint_data[..])
MintRoundTrip ==
    \E k \in MintKeys, decimals \in MintDecimalsIn, mint_authority \in MintAuthorityIn,
       supply \in MintSupplyIn, freeze_authority \in MintFreezeIn :
        /\ Idle
        /\ nops < MaxWrites
        /\ \E mint \in {[is_initialized |-> TRUE, decimals |-> decimals,
                         mint_authority |-> mint_authority, supply |-> supply,
                         freeze_authority |-> freeze_authority]} :
           \E w \in {Mint_serialize(mint, data[k])} :
           \E d1 \in {[data EXCEPT ![k] = w.data]} :
             /\ w.ok
             /\ data' = d1
             /\ nops' = nops + 1
             /\ tx' = Transaction(MintRoundTripInstruction, <<mint>>,
                                  Mint_deserialize(d1[k]).res, data, d1)
             /\ UNCHANGED overflow_checks

NextCodec ==
    \/ MintRoundTrip
    \/ EndTransaction

SpecCodec == InitCodec /\ [][NextCodec]_vars

(***************************************************************************)
(* C13  Mint round-trip: for every valid Mint value m, with mint_authority *)
(* or freeze_authority present or absent, and whatever the buffer held     *)
(* before, decoding the 76-byte prefix of the buffer m was encoded into    *)
(* succeeds and yields m.                                                  *)
(* Fails on the code: a Mint with an absent key encodes to fewer than 76   *)
(* bytes, and try_from_slice rejects the 76-byte slice for the bytes left  *)
(* over.                                                                   *)
(***************************************************************************)
C13_MintRoundTrip ==
    Tag = "MintRoundTrip" =>
        Mint_deserialize(data[CHOOSE k \in MintKeys : TRUE]) = [res |-> "Ok", val |-> tx.accounts[1]]

(***************************************************************************)
(* A specification that starts later in the program's life: the state      *)
(* after InitializeMint (authority K6), InitializeAccount of account 4     *)
(* (owner K6) and MintTo of one token to it.  From here MaxOps further     *)
(* instructions are explored.                                              *)
(***************************************************************************)
FundedTokenAccount ==
    [is_initialized |-> TRUE, mint |-> Pubkey(2), owner |-> Pubkey(6),
     amount |-> U64One, is_frozen |-> FALSE]

InitFunded ==
    /\ data = [k \in BufferKeys |->
                 IF k \in MintKeys THEN Mint_to_bytes(MintOfSupplyOne)
                 ELSE IF k = 4 THEN TokenAccount_to_bytes(FundedTokenAccount)
                 ELSE ZeroData(TokenAccount_LEN)]
    /\ overflow_checks \in BOOLEAN
    /\ nops = 0
    /\ tx = NoTransaction(data)

SpecFunded == InitFunded /\ [][Next]_vars

C14_BurnExceedsSupply ==
    /\ Tag = "Burn"
    /\ MintOf(tx.pre, TxMintKey).is_initialized
    /\ U64Lt(MintOf(tx.pre, TxMintKey).supply, tx.instruction.amount)

(***************************************************************************)
(* C14  Subtraction never wraps: a Burn of more than the supply of the     *)
(* mint supplied fails and leaves the buffers as they were, also when the  *)
(* token account holds at least the amount; the supply is never the        *)
(* difference modulo 2^64.                                                 *)
(* Fails on the code: mint.supply -= amount is unchecked.                  *)
(***************************************************************************)
C14_SubtractionNeverWraps ==
    C14_BurnExceedsSupply => Failed /\ NothingCommitted

C15_EligibleMintTo ==
    /\ Tag = "MintTo"
    /\ MintOf(tx.pre, TxMintKey).is_initialized
    /\ TxPrincipal.is_signer
    /\ MintOf(tx.pre, TxMintKey).mint_authority = Some(Pubkey(TxPrincipal.key))
    /\ ~U64Add(MintOf(tx.pre, TxMintKey).supply, tx.instruction.amount).overflow
    /\ ~U64Add(TokenAccountOf(tx.pre, tx.accounts[2].key).amount,
               tx.instruction.amount).overflow

(***************************************************************************)
(* C15  MintTo effect: when the mint is initialized, the authority account *)
(* has signed and is the mint's mint_authority, and neither sum overflows, *)
(* MintTo succeeds; afterwards the mint's supply and the destination       *)
(* account's amount are each larger by exactly the amount, and every other *)
(* field of the two records and every other buffer is as before.           *)
(***************************************************************************)
C15_MintToEffect ==
    C15_EligibleMintTo =>
        /\ tx.res = "Ok"
        /\ MintOf(data, TxMintKey) =
              [MintOf(tx.pre, TxMintKey) EXCEPT
                 !.supply = U64Add(@, tx.instruction.amount).val]
        /\ TokenAccountOf(data, tx.accounts[2].key) =
              [TokenAccountOf(tx.pre, tx.accounts[2].key) EXCEPT
                 !.amount = U64Add(@, tx.instruction.amount).val]
        /\ \A k \in BufferKeys \ {TxMintKey, tx.accounts[2].key} : data[k] = tx.pre[k]

\* a second MintTo, to an initialized account that already holds tokens
C15_Witness ==
    /\ C15_EligibleMintTo
    /\ tx.res = "Ok"
    /\ TokenAccountOf(tx.pre, tx.accounts[2].key).is_initialized
    /\ TokenAccountOf(tx.pre, tx.accounts[2].key).amount # U64Zero
    /\ MintOf(data, TxMintKey).supply # MintOf(tx.pre, TxMintKey).supply

(***************************************************************************)
(* The wire stage of process_instruction: the instruction data is decoded  *)
(* with the derived Borsh codec of TokenInstruction (one byte for the      *)
(* variant, then the variant's fields), and the decoded instruction is     *)
(* dispatched.  A specification of its own sends wire messages to the      *)
(* program in the funded state.                                            *)
(***************************************************************************)
\* #[derive(BorshSerialize)] for TokenInstruction
TokenInstruction_to_bytes(i) ==
    CASE i.tag = "InitializeMint" ->
            <<0, i.decimals>> \o i.mint_authority \o OptionPubkeyBytes(i.freeze_authority)
      [] i.tag = "InitializeAccount" -> <<1>>
      [] i.tag = "MintTo" -> <<2>> \o U64ToLeBytes(i.amount)
      [] i.tag = "Transfer" -> <<3>> \o U64ToLeBytes(i.amount)
      [] i.tag = "Burn" -> <<4>> \o U64ToLeBytes(i.amount)
      [] i.tag = "SetMintAuthority" -> <<5>> \o OptionPubkeyBytes(i.new_authority)

\* #[derive(BorshDeserialize)] for TokenInstruction
TokenInstruction_read(b) ==
    Bind(b, LAMBDA s :
    Bind(ReadU8(s, 0), LAMBDA v :
        IF ~v.ok THEN [ok |-> FALSE, val |-> NoInstruction, off |-> 0]
        ELSE IF v.val = 0 THEN
            Bind(ReadU8(s, v.off), LAMBDA r1 :
            Bind(ReadPubkey(s, r1.off), LAMBDA r2 :
            Bind(ReadOptionPubkey(s, r2.off), LAMBDA r3 :
                IF r1.ok /\ r2.ok /\ r3.ok
                THEN [ok |-> TRUE,
                      val |-> Instruction("InitializeMint", r1.val, r2.val, r3.val,
                                          U64Zero, None),
                      off |-> r3.off]
                ELSE [ok |-> FALSE, val |-> NoInstruction, off |-> 0])))
        ELSE IF v.val = 1 THEN
            [ok |-> TRUE, val |-> InitializeAccountInstruction, off |-> v.off]
        ELSE IF v.val \in {2, 3, 4} THEN
            Bind(ReadU64(s, v.off), LAMBDA r1 :
                IF r1.ok
                THEN [ok |-> TRUE,
                      val |-> Instruction(IF v.val = 2 THEN "MintTo"
                                          ELSE IF v.val = 3 THEN "Transfer" ELSE "Burn",
                                          0, Pubkey(0), None, r1.val, None),
                      off |-> r1.off]
                ELSE [ok |-> FALSE, val |-> NoInstruction, off |-> 0])
        ELSE IF v.val = 5 THEN
            Bind(ReadOptionPubkey(s, v.off), LAMBDA r1 :
                IF r1.ok
                THEN [ok |-> TRUE,
                      val |-> Instruction("SetMintAuthority", 0, Pubkey(0), None,
                                          U64Zero, r1.val),
                      off |-> r1.off]
                ELSE [ok |-> FALSE, val |-> NoInstruction, off |-> 0])
        ELSE [ok |-> FALSE, val |-> NoInstruction, off |-> 0]))

\* TokenInstruction::try_from_slice: an error unless the whole slice is consumed
TokenInstruction_try_from_slice(b) ==
    Bind(b, LAMBDA s :
    Bind(TokenInstruction_read(s), LAMBDA r :
        [ok |-> r.ok /\ r.off = Len(s), val |-> r.val]))

\* process_instruction on the instruction data as it arrives
process_instruction_data(d, instruction_data, accounts, checks) ==
    Bind(TokenInstruction_try_from_slice(instruction_data), LAMBDA instruction :
        IF ~instruction.ok THEN Return("InvalidInstruction", d)
        ELSE process_instruction(d, instruction.val, accounts, checks))

\* the instructions a client encodes
WireInstructionsIn ==
    {Instruction("InitializeMint", 9, Pubkey(6), f, U64Zero, None) : f \in FreezeIn}
    \cup {InitializeAccountInstruction}
    \cup {Instruction(t, 0, Pubkey(0), None, U64One, None) : t \in {"MintTo", "Transfer", "Burn"}}
    \cup {Instruction("SetMintAuthority", 0, Pubkey(0), None, U64Zero, n) :
            n \in {None, Some(Pubkey(7))}}

\* wire messages: each encoding, the encoding less its last byte, the encoding
\* and one or 32 more zero bytes, and messages with an unknown variant byte or
\* an option byte that is neither 0 nor 1
WireIn ==
    {TokenInstruction_to_bytes(i) : i \in WireInstructionsIn}
    \cup {SubSeq(TokenInstruction_to_bytes(i), 1, Len(TokenInstruction_to_bytes(i)) - 1) :
            i \in WireInstructionsIn}
    \cup {TokenInstruction_to_bytes(i) \o <<0>> : i \in WireInstructionsIn}
    \cup {TokenInstruction_to_bytes(i) \o ZeroData(32) : i \in WireInstructionsIn}
    \cup {<<6>>, <<255>> \o U64ToLeBytes(U64One), <<5, 2>> \o Pubkey(7)}

\* the account lists a client passes
WireAccountsIn ==
    {<<AccountInfo(2, FALSE, TRUE, TRUE), RentSysvar>>,
     <<AccountInfo(5, FALSE, TRUE, TRUE), KeyOnly(2), KeyOnly(6), RentSysvar>>,
     <<AccountInfo(2, FALSE, TRUE, TRUE), AccountInfo(4, FALSE, TRUE, TRUE),
       AccountInfo(6, TRUE, FALSE, TRUE)>>,
     <<AccountInfo(4, FALSE, TRUE, TRUE), AccountInfo(5, FALSE, TRUE, TRUE),
       AccountInfo(6, TRUE, FALSE, TRUE)>>,
     <<AccountInfo(4, FALSE, TRUE, TRUE), AccountInfo(2, FALSE, TRUE, TRUE),
       AccountInfo(6, TRUE, FALSE, TRUE)>>,
     <<AccountInfo(2, FALSE, TRUE, TRUE), AccountInfo(6, TRUE, FALSE, TRUE)>>}

\* the transaction record of a wire message keeps the message
WireInstruction(instruction_data) == [data |-> instruction_data, tag |-> "Wire"]

ProcessWire ==
    \E instruction_data \in WireIn, accounts \in WireAccountsIn :
        /\ Idle
        /\ \E r \in {process_instruction_data(data, instruction_data, accounts,
                                              overflow_checks)} :
             /\ r.res = "Ok" => nops < MaxOps
             /\ data' = IF r.res = "Ok" THEN r.data ELSE data
             /\ nops' = IF r.res = "Ok" THEN nops + 1 ELSE nops
             /\ tx' = Transaction(WireInstruction(instruction_data), accounts, r.res,
                                  data, r.data)
             /\ UNCHANGED overflow_checks

NextWire ==
    \/ ProcessWire
    \/ EndTransaction

SpecWire == InitFunded /\ [][NextWire]_vars

\* the message has the layout of the wire format: the variant byte 0..5 and
\* the variant's fixed payload, an optional key taking a presence byte 0 or 1
\* and 32 bytes
C16_StatedLayout(w) ==
    /\ Len(w) >= 1
    /\ CASE w[1] = 0 -> Len(w) = 1 + 1 + 32 + 33 /\ w[35] \in {0, 1}
         [] w[1] = 1 -> Len(w) = 1
         [] w[1] \in {2, 3, 4} -> Len(w) = 1 + 8
         [] w[1] = 5 -> Len(w) = 1 + 33 /\ w[2] \in {0, 1}
         [] OTHER -> FALSE

\* the operation a message of that layout stands for
C16_OptionalKey(w, off) ==
    IF w[off + 1] = 0 THEN None ELSE Some(SubSeq(w, off + 2, off + 33))
C16_Operation(w) ==
    CASE w[1] = 0 -> Instruction("InitializeMint", w[2], SubSeq(w, 3, 34),
                                 C16_OptionalKey(w, 34), U64Zero, None)
      [] w[1] = 1 -> InitializeAccountInstruction
      [] w[1] \in {2, 3, 4} ->
            Instruction(IF w[1] = 2 THEN "MintTo" ELSE IF w[1] = 3 THEN "Transfer" ELSE "Burn",
                        0, Pubkey(0), None, U64FromLeBytes(SubSeq(w, 2, 9)), None)
      [] w[1] = 5 -> Instruction("SetMintAuthority", 0, Pubkey(0), None, U64Zero,
                                 C16_OptionalKey(w, 1))

(***************************************************************************)
(* C16  Instruction decoding is strict: a wire message whose variant byte  *)
(* is not 0..5, or whose payload is shorter or longer than the variant's   *)
(* fixed payload (an optional key being a presence byte and 32 bytes), is  *)
(* answered with InvalidInstruction, no handler runs and no buffer is      *)
(* written; a message of exactly that layout decodes to its operation.     *)
(* Fails on the code: the derived codec reads and writes an absent key as  *)
(* the presence byte alone.                                                *)
(***************************************************************************)
C16_StrictDecoding ==
    Tag = "Wire" =>
        IF C16_StatedLayout(tx.instruction.data)
        THEN /\ tx.res # "InvalidInstruction"
             /\ TokenInstruction_try_from_slice(tx.instruction.data) =
                   [ok |-> TRUE, val |-> C16_Operation(tx.instruction.data)]
        ELSE /\ tx.res = "InvalidInstruction"
             /\ NothingWritten

C17_NotAuthorized ==
    /\ Tag \in {"Transfer", "Burn"}
    /\ \/ ~TxPrincipal.is_signer
       \/ TokenAccountOf(tx.pre, TxSourceKey).owner # Pubkey(TxPrincipal.key)

(***************************************************************************)
(* C17  Check ordering: a Transfer or Burn whose principal has not signed  *)
(* or is not the owner recorded in the source account fails with           *)
(* Unauthorized, and with no other failure, also when the amount exceeds   *)
(* the account's balance.                                                  *)
(***************************************************************************)
C17_CheckOrdering ==
    C17_NotAuthorized => tx.res = "Unauthorized"

\* a signer who is not the owner asks for more than the account holds
C17_Witness ==
    /\ C17_NotAuthorized
    /\ Tag = "Transfer"
    /\ TxPrincipal.is_signer
    /\ TokenAccountOf(tx.pre, TxSourceKey).is_initialized
    /\ U64Lt(TokenAccountOf(tx.pre, TxSourceKey).amount, tx.instruction.amount)
    /\ tx.res = "Unauthorized"

C18_BurnAfterRevocation ==
    /\ Tag = "Burn"
    /\ Revoked(tx.pre, TxMintKey)
    /\ TokenAccountOf(tx.pre, TxSourceKey).is_initialized
    /\ ~TokenAccountOf(tx.pre, TxSourceKey).is_frozen
    /\ TokenAccountOf(tx.pre, TxSourceKey).mint = Pubkey(TxMintKey)
    /\ TxPrincipal.is_signer
    /\ TokenAccountOf(tx.pre, TxSourceKey).owner = Pubkey(TxPrincipal.key)
    /\ ~U64Sub(TokenAccountOf(tx.pre, TxSourceKey).amount, tx.instruction.amount).overflow
    /\ ~U64Sub(MintOf(tx.pre, TxMintKey).supply, tx.instruction.amount).overflow

(***************************************************************************)
(* C18  Burn stays available after the mint authority is revoked: once     *)
(* SetMintAuthority(None) has succeeded on a mint, a Burn signed by the    *)
(* owner of an initialized, unfrozen account of that mint, of an amount    *)
(* the account holds, succeeds and lowers the account's amount and the     *)
(* mint's supply by the amount.                                            *)
(* Fails on the code: the mint record no longer decodes (C13).             *)
(***************************************************************************)
C18_BurnStaysAvailable ==
    C18_BurnAfterRevocation =>
        /\ tx.res = "Ok"
        /\ TokenAccountOf(data, TxSourceKey).amount =
              U64Sub(TokenAccountOf(tx.pre, TxSourceKey).amount, tx.instruction.amount).val
        /\ MintOf(data, TxMintKey).supply =
              U64Sub(MintOf(tx.pre, TxMintKey).supply, tx.instruction.amount).val

(***************************************************************************)
(* C19  Debit only by the owner: in every step the amount of an            *)
(* initialized token account gets smaller only if the step is a            *)
(* successful Transfer or Burn whose source is that account and whose      *)
(* signing principal is the owner recorded in it; InitializeAccount,       *)
(* MintTo, SetMintAuthority and a Transfer from another account never      *)
(* lower it.                                                               *)
(* Fails on the code: InitializeAccount on a funded account writes a new   *)
(* record with amount 0 (the missing check of C4).                         *)
(***************************************************************************)
C19_DebitOnlyByOwner ==
    \A k \in TokenKeys :
        (/\ TokenAccountOf(tx.pre, k).is_initialized
         /\ U64Lt(TokenAccountOf(data, k).amount, TokenAccountOf(tx.pre, k).amount)) =>
            /\ Tag \in {"Transfer", "Burn"}
            /\ tx.res = "Ok"
            /\ k = TxSourceKey
            /\ TxPrincipal.is_signer
            /\ TokenAccountOf(tx.pre, k).owner = Pubkey(TxPrincipal.key)

(***************************************************************************)
(* C20  Supply grows only by authorized minting: in every step the supply  *)
(* of a mint gets larger only if the step is a successful MintTo on that   *)
(* mint signed by the principal that was the mint's mint_authority when    *)
(* the step began; Burn, Transfer, SetMintAuthority and the initializers   *)
(* never raise it.                                                         *)
(* Fails on the code: a Burn of more than the supply wraps it (C14).       *)
(***************************************************************************)
C20_SupplyGrowsOnlyByMintTo ==
    \A m \in MintKeys :
        U64Lt(MintOf(tx.pre, m).supply, MintOf(data, m).supply) =>
            /\ Tag = "MintTo"
            /\ tx.res = "Ok"
            /\ m = TxMintKey
            /\ TxPrincipal.is_signer
            /\ MintOf(tx.pre, m).mint_authority = Some(Pubkey(TxPrincipal.key))

C21_AliasedTransfer ==
    /\ Tag = "Transfer"
    /\ tx.accounts[1].key = tx.accounts[2].key

(***************************************************************************)
(* C21  Aliased transfer is harmless: a Transfer whose source and          *)
(* destination are the same account leaves that account's amount as it    *)
(* was, for every amount and signer, and no mint's supply changes: no      *)
(* token is created or destroyed.                                          *)
(* The handler writes the debited source and then panics on the second     *)
(* mutable borrow of the same data, so nothing it wrote is committed.      *)
(***************************************************************************)
C21_AliasedTransferHarmless ==
    C21_AliasedTransfer =>
        /\ TokenAccountOf(data, TxSourceKey).amount =
              TokenAccountOf(tx.pre, TxSourceKey).amount
        /\ \A m \in MintKeys : MintOf(data, m).supply = MintOf(tx.pre, m).supply

\* the owner transfers tokens the account holds to the account itself: the
\* handler got as far as writing the debit
C21_Witness ==
    /\ C21_AliasedTransfer
    /\ TxPrincipal.is_signer
    /\ TokenAccountOf(tx.pre, TxSourceKey).is_initialized
    /\ TokenAccountOf(tx.pre, TxSourceKey).owner = Pubkey(TxPrincipal.key)
    /\ ~U64Sub(TokenAccountOf(tx.pre, TxSourceKey).amount, tx.instruction.amount).overflow
    /\ tx.res = "Panic"
    /\ tx.post # tx.pre

====
